---- MODULE Spec2Model ----
(***************************************************************************)
(* Model of missing_data_tool.py: one pass of the Streamlit script over an *)
(* uploaded table: timestamp normalisation, duplicate handling, expected   *)
(* range, missing timestamps, summary metrics, gap grouping, report and    *)
(* timeline plot.                                                          *)
(*                                                                         *)
(* Timestamps are minutes since the first midnight of the data; a numeric  *)
(* cell is an exact fraction <<n, d>> (the float64 rounding of pandas is   *)
(* not modelled); availability_pct is kept in hundredths of a percent.     *)
(* The script uses pandas 1.x/2.x behaviour (fillna(method=...), "1H").    *)
(***************************************************************************)
EXTENDS Integers, Sequences, FiniteSets, TLC

\* Largest number of rows of an uploaded table in Spec.
MaxRows == 3
\* Largest number of rows of an uploaded table in SpecResolver.
MaxCellRows == 3

----------------------------------------------------------------------------
\* Cells

\* pd.NaT: what to_datetime(errors="coerce") gives for an unparseable cell.
NaT == -1
\* A missing numeric cell (float NaN).
NaN == <<>>
\* A missing cell of an object column (read_csv turns an empty cell into it).
NoneCell == "NaN"

timestamp_col == "ts"
\* The columns of the uploaded table besides the timestamp column: "num"
\* holds numbers, "txt" holds strings; either may have missing cells.
DataCols == {"num", "txt"}

\* The missing cell of column c.
Null(c) == IF c = "num" THEN NaN ELSE NoneCell

\* The columns read_csv gives a numeric dtype: those of a table with rows
\* whose cells are all numbers or missing (a column with no value at all is
\* float64; a table without rows has object columns only).
InferNumeric(rows) ==
    {c \in DataCols :
        rows # <<>> /\ (c = "num" \/ \A i \in 1..Len(rows) : rows[i][c] = NoneCell)}

Num(v) == <<v, 1>>

\* pd.to_datetime(cell, errors="coerce"), in minutes since "01 00:00".
ToDatetime(cell) ==
    CASE cell = "01 00:00" -> 0
      [] cell = "01 00:05" -> 5
      [] cell = "01 00:07" -> 7
      [] cell = "01 00:10" -> 10
      [] cell = "01 00:20" -> 20
      [] cell = "01 01:00" -> 60
      [] cell = "02 00:00" -> 1440
      [] OTHER -> NaT

\* The options of the interval selectbox and pd.Timedelta(interval) in minutes.
IntervalOptions == {"5min", "10min", "30min", "1H", "1D"}

Timedelta(iv) ==
    CASE iv = "5min" -> 5
      [] iv = "10min" -> 10
      [] iv = "30min" -> 30
      [] iv = "1H" -> 60
      [] iv = "1D" -> 1440

AggOptions == {"Keep First", "Keep Last", "Mean", "Median", "Min", "Max"}

----------------------------------------------------------------------------
\* Exact arithmetic on numeric cells

RECURSIVE Gcd(_, _)
Gcd(a, b) == IF b = 0 THEN a ELSE Gcd(b, a % b)

Reduce(n, d) == LET g == Gcd(n, d) IN IF g = 0 THEN <<0, 1>> ELSE <<n \div g, d \div g>>

Add(x, y) == Reduce(x[1] * y[2] + y[1] * x[2], x[2] * y[2])

Less(x, y) == x[1] * y[2] < y[1] * x[2]

RECURSIVE SumCells(_)
SumCells(vals) == IF vals = <<>> THEN <<0, 1>> ELSE Add(Head(vals), SumCells(Tail(vals)))

\* vals sorted ascending (insertion of the head into the sorted tail).
RECURSIVE SortCells(_)
SortCells(vals) ==
    IF vals = <<>> THEN <<>>
    ELSE LET rest == SortCells(Tail(vals))
             lo == SelectSeq(rest, LAMBDA v : Less(v, Head(vals)))
             hi == SelectSeq(rest, LAMBDA v : ~Less(v, Head(vals)))
         IN  lo \o <<Head(vals)>> \o hi

----------------------------------------------------------------------------
\* Tables: [cols |-> the columns besides the timestamp, numeric |-> those of
\* them with a numeric dtype, rows |-> the rows in index order]; a row is a
\* record with field ts and one field per column.

Column(rows, c) == [i \in 1..Len(rows) |-> rows[i][c]]

Timestamps(rows) == {rows[i].ts : i \in 1..Len(rows)}

\* The members of S in ascending order.
SetToSortedSeq(S) ==
    [i \in 1..Cardinality(S) |-> CHOOSE x \in S : Cardinality({y \in S : y < x}) = i - 1]

\* df[timestamp_col] = pd.to_datetime(df[timestamp_col], errors="coerce")
ParseTimestamps(rows) ==
    [i \in 1..Len(rows) |-> [rows[i] EXCEPT !.ts = ToDatetime(rows[i].ts)]]

\* A dropna that drops nothing.
DropNaKeepsAll(rows) == rows

\* df.dropna(subset=[timestamp_col])
DropNa(rows) == SelectSeq(rows, LAMBDA r : r.ts # NaT)

RowOrders(n) == {p \in [1..n -> 1..n] : \A i, j \in 1..n : i # j => p[i] # p[j]}

\* df.sort_values(timestamp_col).reset_index(drop=True): the default sort kind
\* is quicksort, which is not stable, so rows of equal timestamp may come out
\* in any order.
SortValues(rows) ==
    {s \in {[i \in 1..Len(rows) |-> rows[p[i]]] : p \in RowOrders(Len(rows))} :
        \A i \in 1..(Len(s) - 1) : s[i].ts <= s[i + 1].ts}

\* df.duplicated(subset=[timestamp_col]).sum()
DuplicateCount(rows) == Len(rows) - Cardinality(Timestamps(rows))

\* The non-null cells of column c in the rows of group t, in row order.
GroupCells(rows, t, c) ==
    SelectSeq(Column(SelectSeq(rows, LAMBDA r : r.ts = t), c), LAMBDA v : v # Null(c))

\* GroupBy.first(): the first non-null entry of each column.
First(rows, t, c) ==
    LET g == GroupCells(rows, t, c) IN IF g = <<>> THEN Null(c) ELSE g[1]

\* GroupBy.last(): the last non-null entry of each column.
Last(rows, t, c) ==
    LET g == GroupCells(rows, t, c) IN IF g = <<>> THEN Null(c) ELSE g[Len(g)]

\* GroupBy.mean(): missing cells are skipped; missing for a group with no
\* value.
Mean(rows, t, c) ==
    LET g == GroupCells(rows, t, c)
        s == SumCells(g)
    IN  IF g = <<>> THEN Null(c) ELSE Reduce(s[1], s[2] * Len(g))

\* A median that takes the upper middle value of an even group.
MedianUpperMiddle(rows, t, c) ==
    LET g == SortCells(GroupCells(rows, t, c))
    IN  IF g = <<>> THEN Null(c) ELSE g[Len(g) \div 2 + 1]

\* GroupBy.median(): the middle value, or the mean of the two middle ones.
Median(rows, t, c) ==
    LET g == SortCells(GroupCells(rows, t, c))
        n == Len(g)
        s == Add(g[n \div 2], g[n \div 2 + 1])
    IN  IF n = 0 THEN Null(c)
        ELSE IF n % 2 = 1 THEN g[(n + 1) \div 2]
        ELSE Reduce(s[1], s[2] * 2)

Min(rows, t, c) ==
    LET g == SortCells(GroupCells(rows, t, c)) IN IF g = <<>> THEN Null(c) ELSE g[1]

Max(rows, t, c) ==
    LET g == SortCells(GroupCells(rows, t, c)) IN IF g = <<>> THEN Null(c) ELSE g[Len(g)]

Statistic(agg, rows, t, c) ==
    CASE agg = "Keep First" -> First(rows, t, c)
      [] agg = "Keep Last" -> Last(rows, t, c)
      [] agg = "Mean" -> Mean(rows, t, c)
      [] agg = "Median" -> Median(rows, t, c)
      [] agg = "Min" -> Min(rows, t, c)
      [] agg = "Max" -> Max(rows, t, c)

\* The columns a policy keeps: numeric_only=True drops those whose dtype is
\* not numeric.
KeptCols(agg, t) ==
    IF agg \in {"Keep First", "Keep Last"} THEN t.cols ELSE t.cols \cap t.numeric

\* df.groupby(timestamp_col).<agg>().reset_index(): one row per group key,
\* keys ascending; the if/elif chain has no else, so any other option leaves
\* df as it is.
Aggregate(agg, t) ==
    LET keys == SetToSortedSeq(Timestamps(t.rows))
        kept == KeptCols(agg, t)
    IN  IF agg \notin AggOptions THEN t
        ELSE [cols |-> kept,
              numeric |-> t.numeric \cap kept,
              rows |-> [k \in 1..Len(keys) |->
                          [c \in kept \cup {timestamp_col} |->
                             IF c = timestamp_col THEN keys[k]
                             ELSE Statistic(agg, t.rows, keys[k], c)]]]

\* The duplicate handling gated on duplicate_count > 1.
ResolverGateOffByOne(agg, t) ==
    IF DuplicateCount(t.rows) > 1 THEN Aggregate(agg, t) ELSE t

\* The duplicate handling without its gate.
ResolverUngated(agg, t) == Aggregate(agg, t)

\* Lines 31-56: the duplicate handling, gated on duplicate_count > 0.
Resolver(agg, t) == IF DuplicateCount(t.rows) > 0 THEN Aggregate(agg, t) ELSE t

----------------------------------------------------------------------------
\* Expected range, missing timestamps, summary metrics, gaps

SeriesMin(rows) ==
    IF rows = <<>> THEN NaT
    ELSE CHOOSE x \in Timestamps(rows) : \A y \in Timestamps(rows) : x <= y

SeriesMax(rows) ==
    IF rows = <<>> THEN NaT
    ELSE CHOOSE x \in Timestamps(rows) : \A y \in Timestamps(rows) : x >= y

\* np.arange(b, e, step): ceil((e - b) / step) values from b.
ARange(b, e, step) ==
    [k \in 1..((e - b + step - 1) \div step) |-> b + (k - 1) * step]

\* A date_range that stops before the last stride.
DateRangeEndExclusive(start, end, freq) ==
    LET stride == Timedelta(freq)
    IN  IF start = NaT \/ end = NaT
        THEN [raised |-> TRUE, index |-> <<>>]
        ELSE [raised |-> FALSE,
              index |-> ARange(start, start + ((end - start) \div stride) * stride,
                               stride)]

\* A date_range that answers NaT bounds with an empty range.
DateRangeNoRaise(start, end, freq) ==
    LET stride == Timedelta(freq)
    IN  [raised |-> FALSE,
         index |-> IF start = NaT \/ end = NaT THEN <<>>
                   ELSE ARange(start,
                               start + ((end - start) \div stride) * stride
                                     + stride \div 2 + 1,
                               stride)]

\* pd.date_range(start, end, freq) for a fixed-width frequency: raises
\* ValueError when start or end is NaT; otherwise the regular range
\* arange(b, b + (end - b) // stride * stride + stride // 2 + 1, stride).
DateRange(start, end, freq) ==
    LET stride == Timedelta(freq)
    IN  IF start = NaT \/ end = NaT
        THEN [raised |-> TRUE, index |-> <<>>]
        ELSE [raised |-> FALSE,
              index |-> ARange(start,
                               start + ((end - start) \div stride) * stride
                                     + stride \div 2 + 1,
                               stride)]

\* full_range.difference(df[timestamp_col]): sorted, as full_range is.
Difference(index, rows) ==
    LET present == Timestamps(rows) IN SelectSeq(index, LAMBDA t : t \notin present)

\* round(x, 2) of x = 100 * n / d, in hundredths (ties to even).
Round2(n, d) ==
    LET q == (10000 * n) \div d
        r == (10000 * n) % d
    IN  IF 2 * r < d THEN q
        ELSE IF 2 * r > d THEN q + 1
        ELSE IF q % 2 = 0 THEN q ELSE q + 1

SummaryMetrics(rows, index) ==
    LET actual == Cardinality(Timestamps(rows))
        expected == Len(index)
    IN  [actual_points |-> actual,
         expected_points |-> expected,
         missing_points |-> expected - actual,
         availability_pct |-> IF expected > 0 THEN Round2(actual, expected) ELSE 0]

\* Missing_Timestamp.where(Missing_Timestamp.diff() != pd.Timedelta(interval)):
\* the first diff is NaT, which differs from every Timedelta.
GapStartWhere(m, iv) ==
    [i \in 1..Len(m) |->
        IF i = 1 \/ m[i] - m[i - 1] # Timedelta(iv) THEN m[i] ELSE NaT]

\* A forward fill that fills nothing (the fillna acting on a copy).
FFillNothing(s) == s

\* fillna(method="ffill"): every NaT takes the last value before it, and
\* stays NaT when there is none.
FFill(s) ==
    LET filled == {j \in 1..Len(s) : s[j] # NaT}
    IN  [i \in 1..Len(s) |->
            LET before == {j \in filled : j <= i}
            IN  IF before = {} THEN NaT
                ELSE s[CHOOSE j \in before : \A k \in before : k <= j]]

\* missing_df.groupby("Gap_Start").agg(Start=min, End=max, Count=count)
\* .reset_index(drop=True): rows whose key is null are left out, groups are in
\* key order.
GroupGaps(m, iv) ==
    LET gap_start == FFill(GapStartWhere(m, iv))
        keys == SetToSortedSeq({gap_start[i] : i \in 1..Len(m)} \ {NaT})
    IN  [g \in 1..Len(keys) |->
            LET rows == {i \in 1..Len(m) : gap_start[i] = keys[g]}
                members == {m[i] : i \in rows}
            IN  [Start |-> CHOOSE x \in members : \A y \in members : x <= y,
                 End |-> CHOOSE x \in members : \A y \in members : x >= y,
                 Count |-> Cardinality(rows)]]

\* gaps[["Duration", "Time_Interval", "Count"]]; the Duration string
\* "<Start> -> <End>" is kept as the pair it is built from.
Report(g, iv) ==
    [i \in 1..Len(g) |->
        [Duration |-> <<g[i].Start, g[i].End>>, Time_Interval |-> iv, Count |-> g[i].Count]]

----------------------------------------------------------------------------
\* One pass of the script

VARIABLES
    pc,           \* the step the pass is at
    raw,          \* the uploaded table, timestamp cells unparsed
    norm,         \* df after lines 26-28 (kept for reference)
    df,           \* the working table
    agg_option,   \* the duplicate policy chosen, "none" when none was asked
    again,        \* the duplicate handling applied to its own output
    interval,     \* the interval chosen
    full_range,   \* the expected timestamps
    missing,      \* the expected timestamps without data
    metrics,      \* the four summary metrics
    gaps,         \* the grouped gaps
    output,       \* the report table
    emitted,      \* what the page shows so far
    error         \* the exception that ended the pass, "none" when none

vars == <<pc, raw, norm, df, agg_option, again, interval, full_range, missing,
          metrics, gaps, output, emitted, error>>

EmptyTable == [cols |-> DataCols, numeric |-> {}, rows |-> <<>>]

NoMetrics ==
    [actual_points |-> 0, expected_points |-> 0, missing_points |-> 0,
     availability_pct |-> 0]

RawTables(n, tsCells, numCells, txtCells) ==
    UNION {[1..k -> [ts : tsCells, num : numCells, txt : txtCells]] : k \in 0..n}

\* Uploads of Spec: many timestamps, one value per column.
TimeCells ==
    {"bad", "01 00:00", "01 00:05", "01 00:07", "01 00:10", "01 00:20",
     "01 01:00", "02 00:00"}

\* Uploads of SpecResolver: few timestamps, several values per column.
FewTimeCells == {"bad", "01 00:00", "01 00:05"}

Start(tables) ==
    /\ raw \in {[cols |-> DataCols, numeric |-> InferNumeric(r), rows |-> r] : r \in tables}
    /\ pc = "normalize"
    /\ norm = EmptyTable
    /\ df = EmptyTable
    /\ agg_option = "none"
    /\ again = EmptyTable
    /\ interval = "none"
    /\ full_range = <<>>
    /\ missing = <<>>
    /\ metrics = NoMetrics
    /\ gaps = <<>>
    /\ output = <<>>
    /\ emitted = {}
    /\ error = "none"

Init == Start(RawTables(MaxRows, TimeCells, {Num(10)}, {"a"}))

InitResolver ==
    Start(RawTables(MaxCellRows, FewTimeCells, {NaN, Num(10), Num(20)}, {NoneCell, "a"}))

\* Lines 20-28: preview, parse, drop, sort.
Normalize ==
    /\ pc = "normalize"
    /\ \E s \in SortValues(DropNa(ParseTimestamps(raw.rows))) :
          /\ df' = [raw EXCEPT !.rows = s]
          /\ norm' = [raw EXCEPT !.rows = s]
    /\ emitted' = emitted \cup {"preview"}
    /\ pc' = "duplicates"
    /\ UNCHANGED <<raw, agg_option, again, interval, full_range, missing, metrics,
                   gaps, output, error>>

\* The policies the page offers: the selectbox exists only with duplicates.
Offered(rows) == IF DuplicateCount(rows) > 0 THEN AggOptions ELSE {"none"}

\* Lines 31-56.
HandleDuplicates ==
    /\ pc = "duplicates"
    /\ \E agg \in Offered(df.rows) :
          /\ agg_option' = agg
          /\ df' = Resolver(agg, df)
    /\ emitted' = emitted \cup (IF DuplicateCount(df.rows) > 0 THEN {"duplicates"} ELSE {})
    /\ pc' = "grid"
    /\ UNCHANGED <<raw, norm, again, interval, full_range, missing, metrics, gaps,
                   output, error>>

\* Lines 31-56 once more, on the table they produced, under any policy.
ResolveAgain ==
    /\ pc = "grid"
    /\ \E agg \in AggOptions : again' = Resolver(agg, df)
    /\ pc' = "again"
    /\ UNCHANGED <<raw, norm, df, agg_option, interval, full_range, missing, metrics,
                   gaps, output, emitted, error>>

\* Lines 59-62: date_range over an empty table raises, which ends the pass.
BuildGrid ==
    /\ pc = "grid"
    /\ \E iv \in IntervalOptions :
          LET r == DateRange(SeriesMin(df.rows), SeriesMax(df.rows), iv)
          IN  /\ interval' = iv
              /\ IF r.raised
                 THEN /\ pc' = "error"
                      /\ error' = "date_range"
                      /\ UNCHANGED full_range
                 ELSE /\ pc' = "summary"
                      /\ full_range' = r.index
                      /\ UNCHANGED error
    /\ UNCHANGED <<raw, norm, df, agg_option, again, missing, metrics, gaps, output,
                   emitted>>

\* Lines 65-78.
Summarize ==
    /\ pc = "summary"
    /\ missing' = Difference(full_range, df.rows)
    /\ metrics' = SummaryMetrics(df.rows, full_range)
    /\ emitted' = emitted \cup {"summary"}
    /\ pc' = "missing_info"
    /\ UNCHANGED <<raw, norm, df, agg_option, again, interval, full_range, gaps,
                   output, error>>

\* Lines 82-83.
NoMissing ==
    /\ pc = "missing_info"
    /\ missing = <<>>
    /\ emitted' = emitted \cup {"no_missing"}
    /\ pc' = "done"
    /\ UNCHANGED <<raw, norm, df, agg_option, again, interval, full_range, missing,
                   metrics, gaps, output, error>>

\* Lines 84-116.
ReportGaps ==
    /\ pc = "missing_info"
    /\ missing # <<>>
    /\ LET g == GroupGaps(missing, interval)
       IN  /\ gaps' = g
           /\ output' = Report(g, interval)
    /\ emitted' = emitted \cup {"report", "download"}
    /\ pc' = "chart"
    /\ UNCHANGED <<raw, norm, df, agg_option, again, interval, full_range, missing,
                   metrics, error>>

\* Lines 121-154, the figure built and rendered.
TimelinePlot ==
    /\ pc = "chart"
    /\ emitted' = emitted \cup {"chart"}
    /\ pc' = "done"
    /\ UNCHANGED <<raw, norm, df, agg_option, again, interval, full_range, missing,
                   metrics, gaps, output, error>>

\* Lines 121-154, plotly or streamlit raising: nothing catches it.
TimelinePlotRaises ==
    /\ pc = "chart"
    /\ pc' = "error"
    /\ error' = "chart"
    /\ UNCHANGED <<raw, norm, df, agg_option, again, interval, full_range, missing,
                   metrics, gaps, output, emitted>>

\* Any interaction runs the script again from the top on the same upload.
Rerun ==
    /\ pc \in {"done", "error"}
    /\ pc' = "normalize"
    /\ norm' = EmptyTable
    /\ df' = EmptyTable
    /\ agg_option' = "none"
    /\ interval' = "none"
    /\ full_range' = <<>>
    /\ missing' = <<>>
    /\ metrics' = NoMetrics
    /\ gaps' = <<>>
    /\ output' = <<>>
    /\ emitted' = {}
    /\ error' = "none"
    /\ UNCHANGED <<raw, again>>

Next ==
    \/ Normalize
    \/ HandleDuplicates
    \/ BuildGrid
    \/ Summarize
    \/ NoMissing
    \/ ReportGaps
    \/ TimelinePlot
    \/ TimelinePlotRaises
    \/ Rerun

Spec == Init /\ [][Next]_vars

NextResolver ==
    \/ Normalize
    \/ HandleDuplicates
    \/ ResolveAgain

SpecResolver == InitResolver /\ [][NextResolver]_vars

----------------------------------------------------------------------------
\* Properties

\* The duplicate handling has run in this pass.
Resolved == pc \notin {"normalize", "duplicates"}

\* The expected range has been built in this pass.
GridBuilt ==
    \/ pc \in {"summary", "missing_info", "chart", "done"}
    \/ pc = "error" /\ error = "chart"

\* The summary metrics have been computed in this pass.
Summarized == "summary" \in emitted

\* The missing-data section has run in this pass.
Grouped ==
    \/ pc \in {"chart", "done"}
    \/ pc = "error" /\ error = "chart"

\* The timestamps of the upload that parse.
ValidTimes == {ToDatetime(raw.rows[i].ts) : i \in 1..Len(raw.rows)} \ {NaT}

Least(S) == CHOOSE x \in S : \A y \in S : x <= y

Greatest(S) == CHOOSE x \in S : \A y \in S : x >= y

Range(s) == {s[i] : i \in 1..Len(s)}

\* C1: the series handed to the expected-range step (the normalised table, or
\* the duplicate handling's output when there were duplicates) has pairwise
\* distinct, strictly increasing timestamps, none of them NaT.
C1_ResolvedTimestampsStrictlyIncreasing ==
    Resolved =>
        /\ \A i \in 1..Len(df.rows) : df.rows[i].ts # NaT
        /\ \A i \in 1..(Len(df.rows) - 1) : df.rows[i].ts < df.rows[i + 1].ts
        /\ Cardinality(Timestamps(df.rows)) = Len(df.rows)

C1_Witness ==
    /\ pc = "grid"
    /\ DuplicateCount(norm.rows) > 0
    /\ Len(df.rows) >= 2

\* C2: missing is the expected range without the resolved timestamps,
\* ascending; gaps are exactly the maximal runs of missing: a gap starts at a
\* missing timestamp iff it is the first or is not one interval after the
\* previous one; Start, End and Count are the run's first member, last member
\* and size; gaps ascend and consecutive gaps are never one interval apart.
\* Grid 00:00..00:20 at 5min with data at 00:00 and 00:20 gives the one gap
\* (00:05, 00:15, 3).
C2_GapsAreMaximalRuns ==
    LET iv == Timedelta(interval)
        absent == Range(full_range) \ Timestamps(df.rows)
        starts == {missing[i] : i \in {j \in 1..Len(missing) :
                                          j = 1 \/ missing[j] - missing[j - 1] # iv}}
    IN  /\ Summarized =>
              /\ Range(missing) = absent
              /\ \A i \in 1..(Len(missing) - 1) : missing[i] < missing[i + 1]
        /\ Grouped =>
              /\ {gaps[g].Start : g \in 1..Len(gaps)} = starts
              /\ \A g \in 1..Len(gaps) :
                    /\ gaps[g].Count >= 1
                    /\ gaps[g].End = gaps[g].Start + (gaps[g].Count - 1) * iv
                    /\ \A k \in 0..(gaps[g].Count - 1) : gaps[g].Start + k * iv \in absent
                    /\ gaps[g].Start - iv \notin absent
                    /\ gaps[g].End + iv \notin absent
              /\ \A t \in absent :
                    \E g \in 1..Len(gaps) : gaps[g].Start <= t /\ t <= gaps[g].End
              /\ \A g \in 1..(Len(gaps) - 1) :
                    /\ gaps[g].End < gaps[g + 1].Start
                    /\ gaps[g + 1].Start - gaps[g].End # iv
              /\ (Timestamps(df.rows) = {0, 20} /\ interval = "5min") =>
                    gaps = <<[Start |-> 5, End |-> 15, Count |-> 3]>>

C2_Witness ==
    /\ pc = "chart"
    /\ Len(gaps) >= 2
    /\ \E g \in 1..Len(gaps) : gaps[g].Count >= 2

\* C3: for a non-empty resolved series the expected range is min, min +
\* interval, min + 2 * interval, ... up to the last such value not beyond max,
\* and expected_points = len(full_range) = floor((max - min) / interval) + 1.
C3_GridIsRegularFloorLength ==
    LET iv == Timedelta(interval)
        lo == Least(Timestamps(df.rows))
        hi == Greatest(Timestamps(df.rows))
        n == Len(full_range)
    IN  /\ GridBuilt =>
              /\ df.rows # <<>>
              /\ n = (hi - lo) \div iv + 1
              /\ \A k \in 1..n : full_range[k] = lo + (k - 1) * iv
              /\ full_range[n] <= hi
              /\ full_range[n] + iv > hi
        /\ Summarized => metrics.expected_points = (hi - lo) \div iv + 1

C3_Witness ==
    /\ Summarized
    /\ Len(full_range) >= 2
    /\ (Greatest(Timestamps(df.rows)) - Least(Timestamps(df.rows))) % Timedelta(interval) # 0

\* C4: when no row of the upload has a parseable timestamp, the pass ends in
\* the error raised by the expected-range step: no range is built and neither
\* summary metrics nor any gap report is emitted.
C4_EmptyDatasetEndsAtGridBuilder ==
    /\ [](ValidTimes = {} =>
            /\ pc \in {"normalize", "duplicates", "grid", "error"}
            /\ pc = "error" => error = "date_range"
            /\ full_range = <<>>
            /\ metrics = NoMetrics
            /\ gaps = <<>>
            /\ output = <<>>
            /\ emitted \cap {"summary", "no_missing", "report", "download", "chart"} = {})
    /\ [][(ValidTimes = {} /\ pc = "grid") => (pc' = "error" /\ error' = "date_range")]_vars

C4_Witness ==
    /\ pc = "error"
    /\ error = "date_range"
    /\ Len(raw.rows) >= 2
    /\ emitted = {"preview"}

\* The first and the last row of rows with timestamp t.
FirstRowAt(rows, t) == rows[Least({i \in 1..Len(rows) : rows[i].ts = t})]

LastRowAt(rows, t) == rows[Greatest({i \in 1..Len(rows) : rows[i].ts = t})]

\* C5: under Keep First (Keep Last) the output row of every timestamp is the
\* first (last) row of its group in sort order, cell for cell, missing cells
\* included.
C5_KeepFirstLastKeepsWholeRow ==
    (Resolved /\ agg_option \in {"Keep First", "Keep Last"}) =>
        \A k \in 1..Len(df.rows) :
            df.rows[k] = IF agg_option = "Keep First"
                         THEN FirstRowAt(norm.rows, df.rows[k].ts)
                         ELSE LastRowAt(norm.rows, df.rows[k].ts)

\* The rows of the normalised table at timestamp t that have a value.
ValuedAt(t) == {i \in 1..Len(norm.rows) : norm.rows[i].ts = t /\ norm.rows[i].num # NaN}

Val(i) == norm.rows[i].num[1]

RECURSIVE SumVal(_)
SumVal(I) == IF I = {} THEN 0 ELSE LET i == CHOOSE j \in I : TRUE IN Val(i) + SumVal(I \ {i})

\* v is the k-th smallest value among the rows I.
OrderStat(I, k, v) ==
    /\ \E i \in I : Val(i) = v
    /\ Cardinality({i \in I : Val(i) < v}) < k
    /\ Cardinality({i \in I : Val(i) <= v}) >= k

\* x is the statistic agg of the values of the rows I (NaN when there is none).
IsStatistic(agg, x, I) ==
    LET n == Cardinality(I)
    IN  IF n = 0 THEN x = NaN
        ELSE /\ x # NaN
             /\ x[2] > 0
             /\ CASE agg = "Mean" -> x[1] * n = x[2] * SumVal(I)
                  [] agg = "Min" -> x[2] = 1 /\ OrderStat(I, 1, x[1])
                  [] agg = "Max" -> x[2] = 1 /\ OrderStat(I, n, x[1])
                  [] agg = "Median" ->
                       IF n % 2 = 1 THEN x[2] = 1 /\ OrderStat(I, (n + 1) \div 2, x[1])
                       ELSE \E a, b \in {Val(i) : i \in I} :
                               /\ OrderStat(I, n \div 2, a)
                               /\ OrderStat(I, n \div 2 + 1, b)
                               /\ 2 * x[1] = x[2] * (a + b)

\* Some cell of the uploaded column "txt" holds a string.
TxtHasString == \E i \in 1..Len(raw.rows) : raw.rows[i].txt # NoneCell

\* C6: under Mean, Median, Min or Max with duplicates present, the output has
\* one row per distinct timestamp; its columns are the timestamp and the
\* numeric columns, a column holding a string being dropped (a column with no
\* value at all is numeric and stays, all missing); each numeric cell is the
\* statistic over the values its timestamp's group has (Mean of 10 and 20 is
\* 15), missing when the group has none.
C6_NumericAggregation ==
    (Resolved /\ agg_option \in {"Mean", "Median", "Min", "Max"}) =>
        /\ DuplicateCount(norm.rows) > 0
        /\ df.cols = IF TxtHasString THEN {"num"} ELSE {"num", "txt"}
        /\ Len(df.rows) = Cardinality(Timestamps(norm.rows))
        /\ Timestamps(df.rows) = Timestamps(norm.rows)
        /\ \A k \in 1..Len(df.rows) :
              /\ DOMAIN df.rows[k] = {"ts"} \cup df.cols
              /\ IsStatistic(agg_option, df.rows[k].num, ValuedAt(df.rows[k].ts))
              /\ "txt" \in df.cols => df.rows[k].txt = NoneCell
              /\ (agg_option = "Mean"
                    /\ {Val(i) : i \in ValuedAt(df.rows[k].ts)} = {10, 20}
                    /\ Cardinality(ValuedAt(df.rows[k].ts)) = 2)
                 => df.rows[k].num = Num(15)

C6_Witness ==
    /\ pc = "grid"
    /\ agg_option = "Median"
    /\ \E k \in 1..Len(df.rows) :
          /\ Cardinality(ValuedAt(df.rows[k].ts)) = 2
          /\ df.rows[k].num = Num(15)
    /\ \E i \in 1..Len(norm.rows) : norm.rows[i].txt # NoneCell

\* C7: the duplicate handling returns a table without duplicate timestamps
\* unchanged (rows, columns, order), so applying it to its own output under
\* any policy returns that output.
C7_ResolverNoOpWithoutDuplicates ==
    /\ (Resolved /\ DuplicateCount(norm.rows) = 0) => df = norm
    /\ pc = "again" => again = df

C7_Witness ==
    /\ pc = "again"
    /\ DuplicateCount(norm.rows) > 0
    /\ Len(df.rows) >= 2
    /\ "txt" \in df.cols

\* The rows of the upload with a valid timestamp, parsed.
ValidRows == {r \in Range(ParseTimestamps(raw.rows)) : r.ts # NaT}

Occurrences(rows, r) == Cardinality({i \in 1..Len(rows) : rows[i] = r})

\* C8: rows whose timestamp does not parse are dropped without an error: the
\* normalised table holds exactly the rows with a valid timestamp, ascending,
\* and the range bounds, expected_points and availability_pct come from the
\* minimum and maximum of the valid rows only.
C8_InvalidRowsDroppedSilently ==
    LET iv == Timedelta(interval)
        lo == Least(ValidTimes)
        hi == Greatest(ValidTimes)
        expected == (hi - lo) \div iv + 1
        distance == metrics.availability_pct * expected - 10000 * Cardinality(ValidTimes)
    IN  /\ pc # "normalize" =>
              /\ Len(norm.rows) = Cardinality({i \in 1..Len(raw.rows) :
                                                 ToDatetime(raw.rows[i].ts) # NaT})
              /\ Range(norm.rows) = ValidRows
              /\ \A r \in ValidRows :
                    Occurrences(norm.rows, r) = Occurrences(ParseTimestamps(raw.rows), r)
              /\ \A i \in 1..(Len(norm.rows) - 1) : norm.rows[i].ts <= norm.rows[i + 1].ts
        /\ (ValidTimes # {} /\ Resolved) => pc # "error" \/ error = "chart"
        /\ GridBuilt =>
              /\ full_range[1] = lo
              /\ full_range[Len(full_range)] <= hi
              /\ full_range[Len(full_range)] + iv > hi
        /\ Summarized =>
              /\ metrics.actual_points = Cardinality(ValidTimes)
              /\ metrics.expected_points = expected
              /\ 2 * distance <= expected
              /\ -2 * distance <= expected

C8_Witness ==
    /\ pc = "missing_info"
    /\ Len(norm.rows) = 2
    /\ Len(raw.rows) = 3
    /\ metrics.expected_points >= 3

\* C9: a failure of the timeline plot does not end the pass in an error: the
\* pass completes with the summary metrics and the gap report emitted.
C9_ChartFailureDoesNotAbort ==
    error = "chart" => (pc = "done" /\ {"summary", "report"} \subseteq emitted)

RECURSIVE SumCount(_)
SumCount(g) == IF g = <<>> THEN 0 ELSE Head(g).Count + SumCount(Tail(g))

\* C10: missing_points is the number of missing timestamps and the sum of the
\* gap counts, is never negative, and availability_pct never exceeds 100.
C10_MissingPointsCountMissingTimestamps ==
    /\ Summarized =>
          /\ metrics.missing_points = Len(missing)
          /\ metrics.missing_points >= 0
          /\ metrics.availability_pct <= 10000
    /\ Grouped => metrics.missing_points = SumCount(output)

====
